---- MODULE Spec2Model ----
(***************************************************************************)
(* Model of the Product service: src/service/models.py (the Product model, *)
(* its lifecycle operations and its serialize/deserialize pair) and        *)
(* src/service/__init__.py (the application bootstrap).                    *)
(*                                                                         *)
(* Python values are tagged records (PyVal); a Python str is a sequence of *)
(* one-character strings, so that str(Decimal) and Decimal(str) are        *)
(* computed character by character.                                        *)
(***************************************************************************)
EXTENDS Integers, Sequences, FiniteSets, TLC

VARIABLES
    \* ---- bootstrap (src/service/__init__.py) and lifecycle (models.py)
    pc,          \* position of the module-level bootstrap code
    log,         \* the log records emitted so far: [level, msg, cause]
    exitStatus,  \* -1 while the process runs, else the process exit status
    registered,  \* modules imported after initialisation (routes, ...)
    store,       \* the product table: id -> row, or NoRow
    obj,         \* the in-memory Product instances
    last,        \* the create/update/delete call just made: [op, o, exc, id, new]
    \* ---- serialize / deserialize (models.py)
    src,         \* the Product that was serialized
    data,        \* the mapping handed to deserialize
    edits,       \* number of edits made to the mapping
    res          \* the outcome of deserialize: [done, exc, msg, self, pre]

vars == <<pc, log, exitStatus, registered, store, obj, last, src, data, edits, res>>

bootVars == <<pc, log, exitStatus, registered>>
lifeVars == <<store, obj, last>>
serVars == <<src, data, edits, res>>

(***************************************************************************)
(* Python values                                                           *)
(***************************************************************************)
PyStr(cs) == [t |-> "str", s |-> cs, n |-> 0, b |-> FALSE]
PyInt(i) == [t |-> "int", s |-> <<>>, n |-> i, b |-> FALSE]
PyBool(x) == [t |-> "bool", s |-> <<>>, n |-> 0, b |-> x]
PyNone == [t |-> "none", s |-> <<>>, n |-> 0, b |-> FALSE]
\* a list of s-many elements (only its length matters here)
PyList(len) == [t |-> "list", s |-> <<>>, n |-> len, b |-> FALSE]

\* bool(v), as used by `not self.name`
Truthy(v) ==
    CASE v.t = "str" -> v.s # <<>>
      [] v.t = "int" -> v.n # 0
      [] v.t = "bool" -> v.b
      [] v.t = "list" -> v.n # 0
      [] OTHER -> FALSE

(***************************************************************************)
(* class Category(Enum)                                                    *)
(***************************************************************************)
Category == {"UNKNOWN", "CLOTHS", "FOOD", "HOUSEWARES", "AUTOMOTIVE", "TOOLS"}

\* member.name as a Python str
CategoryName(c) ==
    CASE c = "UNKNOWN" -> <<"U", "N", "K", "N", "O", "W", "N">>
      [] c = "CLOTHS" -> <<"C", "L", "O", "T", "H", "S">>
      [] c = "FOOD" -> <<"F", "O", "O", "D">>
      [] c = "HOUSEWARES" -> <<"H", "O", "U", "S", "E", "W", "A", "R", "E", "S">>
      [] c = "AUTOMOTIVE" -> <<"A", "U", "T", "O", "M", "O", "T", "I", "V", "E">>
      [] c = "TOOLS" -> <<"T", "O", "O", "L", "S">>

\* attributes of the class Category that are not members (every Enum class
\* has them); getattr returns them without raising
ClassAttrs == { <<"_", "_", "m", "e", "m", "b", "e", "r", "s", "_", "_">>,
                <<"_", "_", "d", "o", "c", "_", "_">> }

NonMember == "<non-member>"
NoCategory == "None"

\* getattr(Category, v): [exc, c]
GetCategory(v) ==
    IF v.t # "str" THEN [exc |-> "TypeError", c |-> NoCategory]
    ELSE IF \E c \in Category : CategoryName(c) = v.s
         THEN [exc |-> "none", c |-> CHOOSE c \in Category : CategoryName(c) = v.s]
    ELSE IF v.s \in ClassAttrs THEN [exc |-> "none", c |-> NonMember]
    ELSE [exc |-> "AttributeError", c |-> NoCategory]

(***************************************************************************)
(* decimal.Decimal: sign, coefficient, exponent; or Infinity, NaN, sNaN    *)
(***************************************************************************)
Dec(sign, coef, exp) == [kind |-> "F", sign |-> sign, coef |-> coef, exp |-> exp]
DecInf(sign) == [kind |-> "Inf", sign |-> sign, coef |-> 0, exp |-> 0]
\* coef is the diagnostic payload (0: none)
DecNaN(kind, sign, diag) == [kind |-> kind, sign |-> sign, coef |-> diag, exp |-> 0]
\* the price attribute of a Product whose price was never set
NoPrice == [kind |-> "None", sign |-> 0, coef |-> 0, exp |-> 0]

DigitChars == <<"0", "1", "2", "3", "4", "5", "6", "7", "8", "9">>
IsDigit(c) == \E i \in 1..10 : DigitChars[i] = c
DigitVal(c) == (CHOOSE i \in 1..10 : DigitChars[i] = c) - 1

RECURSIVE NatToStr(_)
NatToStr(n) ==
    IF n < 10 THEN <<DigitChars[n + 1]>>
    ELSE NatToStr(n \div 10) \o <<DigitChars[(n % 10) + 1]>>

RECURSIVE StrToNat(_)
StrToNat(s) ==
    IF s = <<>> THEN 0
    ELSE 10 * StrToNat(SubSeq(s, 1, Len(s) - 1)) + DigitVal(s[Len(s)])

Zeros(k) == [i \in 1..k |-> "0"]
Abs(i) == IF i < 0 THEN -i ELSE i

\* a str() that loses the exponent
ExpSuffixDropped(e) == <<>>

\* the exponent part of Decimal.__str__: "E%+d", or nothing
ExpSuffix(e) ==
    IF e = 0 THEN <<>>
    ELSE <<"E", IF e < 0 THEN "-" ELSE "+">> \o NatToStr(Abs(e))

\* Decimal.__str__
DecimalStr(d) ==
    LET sign == IF d.sign = 1 THEN <<"-">> ELSE <<>>
        diag == IF d.coef = 0 THEN <<>> ELSE NatToStr(d.coef)
    IN  CASE d.kind = "None" -> <<"N", "o", "n", "e">>
          [] d.kind = "Inf" -> sign \o <<"I", "n", "f", "i", "n", "i", "t", "y">>
          [] d.kind = "NaN" -> sign \o <<"N", "a", "N">> \o diag
          [] d.kind = "sNaN" -> sign \o <<"s", "N", "a", "N">> \o diag
          [] OTHER ->
            LET int == NatToStr(d.coef)
                leftdigits == d.exp + Len(int)
                dotplace == IF d.exp <= 0 /\ leftdigits > -6 THEN leftdigits ELSE 1
                intpart == IF dotplace <= 0 THEN <<"0">>
                           ELSE IF dotplace >= Len(int)
                                THEN int \o Zeros(dotplace - Len(int))
                           ELSE SubSeq(int, 1, dotplace)
                fracpart == IF dotplace <= 0 THEN <<".">> \o Zeros(-dotplace) \o int
                            ELSE IF dotplace >= Len(int) THEN <<>>
                            ELSE <<".">> \o SubSeq(int, dotplace + 1, Len(int))
            IN  sign \o intpart \o fracpart \o ExpSuffix(leftdigits - dotplace)

\* ---- Decimal(str): the _parser regular expression of the decimal module
RECURSIVE DigitPrefixLen(_)
DigitPrefixLen(s) ==
    IF s # <<>> /\ IsDigit(Head(s)) THEN 1 + DigitPrefixLen(Tail(s)) ELSE 0

Drop(s, k) == SubSeq(s, k + 1, Len(s))
Take(s, k) == SubSeq(s, 1, k)

RECURSIVE LStrip(_)
LStrip(s) == IF s # <<>> /\ Head(s) = " " THEN LStrip(Tail(s)) ELSE s
RECURSIVE RStrip(_)
RStrip(s) == IF s # <<>> /\ s[Len(s)] = " " THEN RStrip(Take(s, Len(s) - 1)) ELSE s
Strip(s) == RStrip(LStrip(s))
NoUnderscore(s) == SelectSeq(s, LAMBDA c : c # "_")

UpperOf(c) ==
    CASE c = "i" -> "I" [] c = "n" -> "N" [] c = "f" -> "F" [] c = "t" -> "T"
      [] c = "y" -> "Y" [] c = "a" -> "A" [] c = "s" -> "S" [] c = "e" -> "E"
      [] OTHER -> c
Upper(s) == [i \in 1..Len(s) |-> UpperOf(s[i])]

BadDecimal == [ok |-> FALSE, d |-> NoPrice]

\* the alternative  NaN / sNaN with diagnostic digits, Inf / Infinity
ParseSpecial(sign, body) ==
    LET u == Upper(body)
    IN  IF u = <<"I", "N", "F">> \/ u = <<"I", "N", "F", "I", "N", "I", "T", "Y">>
        THEN [ok |-> TRUE, d |-> DecInf(sign)]
        ELSE IF Len(u) >= 3 /\ Take(u, 3) = <<"N", "A", "N">>
                /\ DigitPrefixLen(Drop(u, 3)) = Len(u) - 3
        THEN [ok |-> TRUE, d |-> DecNaN("NaN", sign, StrToNat(Drop(u, 3)))]
        ELSE IF Len(u) >= 4 /\ Take(u, 4) = <<"S", "N", "A", "N">>
                /\ DigitPrefixLen(Drop(u, 4)) = Len(u) - 4
        THEN [ok |-> TRUE, d |-> DecNaN("sNaN", sign, StrToNat(Drop(u, 4)))]
        ELSE BadDecimal

\* the alternative  digits [. digits] [E [sign] digits], left to right:
\* the digits of the exponent, which must reach the end of the string
ParseExpDigits(sign, int, frac, esign, edig) ==
    IF edig # <<>> /\ DigitPrefixLen(edig) = Len(edig)
    THEN [ok |-> TRUE,
          d |-> Dec(sign, StrToNat(int \o frac), esign * StrToNat(edig) - Len(frac))]
    ELSE BadDecimal

\* the optional exponent
ParseExp(sign, int, frac, r2) ==
    IF r2 = <<>>
    THEN [ok |-> TRUE, d |-> Dec(sign, StrToNat(int \o frac), -Len(frac))]
    ELSE IF UpperOf(Head(r2)) # "E" THEN BadDecimal
    ELSE IF Len(r2) > 1 /\ r2[2] \in {"+", "-"}
    THEN ParseExpDigits(sign, int, frac, IF r2[2] = "-" THEN -1 ELSE 1, Drop(r2, 2))
    ELSE ParseExpDigits(sign, int, frac, 1, Tail(r2))

\* the optional fractional part; int and frac together must hold a digit
ParseFrac(sign, int, r1) ==
    IF r1 # <<>> /\ Head(r1) = "."
    THEN LET fl == DigitPrefixLen(Tail(r1))
         IN  IF Len(int) + fl = 0 THEN BadDecimal
             ELSE ParseExp(sign, int, Take(Tail(r1), fl), Drop(Tail(r1), fl))
    ELSE IF int = <<>> THEN BadDecimal
    ELSE ParseExp(sign, int, <<>>, r1)

ParseNumber(sign, body) ==
    LET il == DigitPrefixLen(body)
    IN  ParseFrac(sign, Take(body, il), Drop(body, il))

DecimalFromStr(s) ==
    LET t == NoUnderscore(Strip(s))
        hasSign == t # <<>> /\ Head(t) \in {"+", "-"}
        sign == IF hasSign /\ Head(t) = "-" THEN 1 ELSE 0
        body == IF hasSign THEN Tail(t) ELSE t
        num == ParseNumber(sign, body)
    IN  IF num.ok THEN num ELSE ParseSpecial(sign, body)

\* Decimal(value): [exc, d]
DecimalNew(v) ==
    CASE v.t = "str" ->
            LET p == DecimalFromStr(v.s)
            IN  IF p.ok THEN [exc |-> "none", d |-> p.d]
                ELSE [exc |-> "InvalidOperation", d |-> NoPrice]
      [] v.t = "int" ->
            [exc |-> "none", d |-> Dec(IF v.n < 0 THEN 1 ELSE 0, Abs(v.n), 0)]
      [] v.t = "bool" ->
            [exc |-> "none", d |-> Dec(0, IF v.b THEN 1 ELSE 0, 0)]
      \* a list or tuple must be (sign, digits, exponent)
      [] v.t = "list" -> [exc |-> "ValueError", d |-> NoPrice]
      [] OTHER -> [exc |-> "TypeError", d |-> NoPrice]

\* d < 0: [exc, lt]; an ordering comparison with a NaN signals InvalidOperation
DecimalLtZero(d) ==
    CASE d.kind \in {"NaN", "sNaN"} -> [exc |-> "InvalidOperation", lt |-> FALSE]
      [] d.kind = "Inf" -> [exc |-> "none", lt |-> d.sign = 1]
      [] d.kind = "None" -> [exc |-> "TypeError", lt |-> FALSE]
      [] OTHER -> [exc |-> "none", lt |-> d.sign = 1 /\ d.coef # 0]

(***************************************************************************)
(* class Product(db.Model)                                                 *)
(***************************************************************************)
\* a Python str literal, character by character
Hat == <<"H", "a", "t">>
Wool == <<"w", "o", "o", "l">>

\* Product(): every attribute is None until it is assigned (id: 0 is None)
NewProduct ==
    [id |-> 0, name |-> PyNone, description |-> PyNone, price |-> NoPrice,
     available |-> PyNone, category |-> NoCategory]

RequiredKeys == {"name", "description", "price", "available", "category"}
AllKeys == RequiredKeys \cup {"id"}

\* Product.serialize raises AttributeError when category has no .name
SerializeRaises(p) == p.category \notin Category

\* Product.serialize: the mapping [isdict, keys, val]
serialize(p) ==
    [isdict |-> TRUE,
     keys |-> AllKeys,
     val |-> [k \in AllKeys |->
                CASE k = "id" -> IF p.id = 0 THEN PyNone ELSE PyInt(p.id)
                  [] k = "name" -> p.name
                  [] k = "description" -> p.description
                  [] k = "price" -> PyStr(DecimalStr(p.price))
                  [] k = "available" -> p.available
                  [] k = "category" -> PyStr(CategoryName(p.category))]]

MissingMsg(k) ==
    CASE k = "name" -> "Invalid product: missing name"
      [] k = "description" -> "Invalid product: missing description"
      [] k = "price" -> "Invalid product: missing price"
      [] k = "available" -> "Invalid product: missing available"
      [] k = "category" -> "Invalid product: missing category"

Raise(self, exc, msg) == [exc |-> exc, msg |-> msg, self |-> self]
Return(self) == [exc |-> "none", msg |-> "", self |-> self]

\* Product.deserialize: [exc, msg, self]; self is the instance as the call
\* leaves it (attributes assigned before a raise stay assigned).  The steps
\* of the method, last first:
\* the checks after the try block
Validate(s5) ==
    IF ~Truthy(s5.name) \/ ~Truthy(s5.description)
    THEN Raise(s5, "DataValidationError",
               "Invalid product: name and description are required")
    ELSE IF DecimalLtZero(s5.price).exc # "none"
    THEN Raise(s5, DecimalLtZero(s5.price).exc, "")
    ELSE IF DecimalLtZero(s5.price).lt
    THEN Raise(s5, "DataValidationError", "Invalid product: price must be >= 0")
    ELSE Return(s5)

\* self.category = getattr(Category, data["category"])
SetCategory(s4, d) ==
    IF "category" \notin d.keys
    THEN Raise(s4, "DataValidationError", MissingMsg("category"))
    ELSE LET gc == GetCategory(d.val["category"])
         IN  IF gc.exc = "TypeError"
             THEN Raise(s4, "DataValidationError", "Invalid value for product")
             ELSE IF gc.exc = "AttributeError"
             THEN Raise(s4, "AttributeError", "")
             ELSE Validate([s4 EXCEPT !.category = gc.c])

\* a deserialize whose handler misses the KeyError of data["available"]
SetAvailableUncaught(s3, d) ==
    IF "available" \notin d.keys
    THEN Raise(s3, "KeyError", "available")
    ELSE SetCategory([s3 EXCEPT !.available = d.val["available"]], d)

\* self.available = data["available"]
SetAvailable(s3, d) ==
    IF "available" \notin d.keys
    THEN Raise(s3, "DataValidationError", MissingMsg("available"))
    ELSE SetCategory([s3 EXCEPT !.available = d.val["available"]], d)

\* a deserialize without the inner  except InvalidOperation
SetPriceUncaught(s2, d, dn) ==
    IF "price" \notin d.keys
    THEN Raise(s2, "DataValidationError", MissingMsg("price"))
    ELSE IF dn.exc = "InvalidOperation"
    THEN Raise(s2, "InvalidOperation", "")
    ELSE IF dn.exc \in {"TypeError", "ValueError"}
    THEN Raise(s2, "DataValidationError", "Invalid value for product")
    ELSE SetAvailable([s2 EXCEPT !.price = dn.d], d)

\* self.price = Decimal(data["price"]), dn being what Decimal() gives
SetPrice(s2, d, dn) ==
    IF "price" \notin d.keys
    THEN Raise(s2, "DataValidationError", MissingMsg("price"))
    ELSE IF dn.exc = "InvalidOperation"
    THEN Raise(s2, "DataValidationError", "Invalid price value")
    ELSE IF dn.exc \in {"TypeError", "ValueError"}
    THEN Raise(s2, "DataValidationError", "Invalid value for product")
    ELSE SetAvailable([s2 EXCEPT !.price = dn.d], d)

\* self.description = data["description"]
SetDescription(s1, d) ==
    IF "description" \notin d.keys
    THEN Raise(s1, "DataValidationError", MissingMsg("description"))
    ELSE SetPrice([s1 EXCEPT !.description = d.val["description"]], d,
                  DecimalNew(d.val["price"]))

deserialize(self, d) ==
    IF ~d.isdict
    THEN Raise(self, "DataValidationError",
               "Invalid data format for deserializing a Product")
    ELSE IF "name" \notin d.keys
    THEN Raise(self, "DataValidationError", MissingMsg("name"))
    ELSE SetDescription([self EXCEPT !.name = d.val["name"]], d)

(***************************************************************************)
(* Serialization: a Product is serialized, the mapping is edited the way   *)
(* the tests edit it (del data[k]; data[k] = v), and deserialize is called *)
(***************************************************************************)
MaxEdits == 2

PriceVals ==
    { Dec(0, 0, 0),       \* 0
      Dec(0, 999, -2),    \* 9.99
      Dec(0, 500, -2),    \* 5.00
      Dec(0, 125, -1),    \* 12.5
      Dec(0, 1, 1),       \* 1E+1
      Dec(0, 1234, 2),    \* 1.234E+5
      Dec(0, 1, -6),      \* 0.000001
      Dec(0, 1, -7),      \* 1E-7
      Dec(0, 0, -2),      \* 0.00
      Dec(1, 0, 0),       \* -0
      DecInf(0),          \* Infinity
      Dec(1, 500, -2),    \* -5.00
      DecNaN("NaN", 0, 0) }

SerProducts ==
    { p \in [id : {0, 1}, name : {PyStr(Hat), PyStr(<<>>)}, description : {PyStr(Wool)},
             price : PriceVals, available : {PyBool(TRUE), PyBool(FALSE)},
             category : Category] :
        \/ p.price = Dec(0, 999, -2)
        \/ p.category = "FOOD" /\ p.available.b /\ p.name.s # <<>> }

PriceEdits ==
    { PyStr(<<"n", "o", "t", "-", "a", "-", "d", "e", "c", "i", "m", "a", "l">>),
      PyStr(<<>>),
      PyStr(<<"-", "5", ".", "0", "0">>),
      PyStr(<<"N", "a", "N">>),
      PyStr(<<"-", "i", "n", "f">>),
      PyStr(<<".", "5">>),
      PyStr(<<"5", ".">>),
      PyStr(<<".">>),
      PyStr(<<"1", "e", "2">>),
      PyStr(<<"1", "E">>),
      PyStr(<<"1", ".", "2", ".", "3">>),
      PyStr(<<" ", "7", " ">>),
      PyStr(<<"1", "_", "0">>),
      PyStr(<<"+", "3">>),
      PyNone, PyInt(-3), PyInt(7), PyBool(TRUE), PyList(2) }

EditVals(k) ==
    CASE k = "id" -> {PyInt(2)}
      [] k = "name" -> {PyStr(<<>>), PyNone, PyInt(0)}
      [] k = "description" -> {PyStr(<<>>), PyNone}
      [] k = "price" -> PriceEdits
      [] k = "available" -> {PyNone, PyStr(<<"y", "e", "s">>)}
      [] k = "category" ->
            { PyStr(<<"B", "O", "G", "U", "S">>), PyStr(<<"f", "o", "o", "d">>),
              PyStr(<<"_", "_", "d", "o", "c", "_", "_">>), PyStr(<<>>),
              PyStr(<<"T", "O", "O", "L", "S">>), PyInt(2), PyNone }

NoData == [isdict |-> FALSE, keys |-> {}, val |-> [k \in AllKeys |-> PyNone]]

\* the instances deserialize is called on: a new Product(), the serialized
\* Product itself, another Product with an id of its own
Targets == {NewProduct, src, [NewProduct EXCEPT !.id = 2]}

SerStart(products) ==
    /\ src \in products
    /\ data = NoData
    /\ edits = 0
    /\ res = [stage |-> "new", exc |-> "none", msg |-> "", self |-> NewProduct,
              pre |-> NewProduct]

\* data = product.serialize()
Serialize ==
    /\ res.stage = "new"
    /\ ~SerializeRaises(src)
    /\ data' = serialize(src)
    /\ res' = [res EXCEPT !.stage = "serialized"]
    /\ UNCHANGED <<src, edits, bootVars, lifeVars>>

\* del data[k]
DelKey(k) ==
    /\ res.stage = "serialized"
    /\ edits < MaxEdits
    /\ data.isdict /\ k \in data.keys
    /\ data' = [data EXCEPT !.keys = @ \ {k}, !.val[k] = PyNone]
    /\ edits' = edits + 1
    /\ UNCHANGED <<src, res, bootVars, lifeVars>>

\* data[k] = v
SetKey(k, v) ==
    /\ res.stage = "serialized"
    /\ edits < MaxEdits
    /\ data.isdict
    /\ data.val[k] # v
    /\ data' = [data EXCEPT !.keys = @ \cup {k}, !.val[k] = v]
    /\ edits' = edits + 1
    /\ UNCHANGED <<src, res, bootVars, lifeVars>>

\* something that is not a dict is passed instead
PassNonMapping ==
    /\ res.stage = "serialized"
    /\ edits < MaxEdits
    /\ data.isdict
    /\ data' = NoData
    /\ edits' = edits + 1
    /\ UNCHANGED <<src, res, bootVars, lifeVars>>

\* product.deserialize(data)
Deserialize(target) ==
    /\ res.stage = "serialized"
    /\ LET r == deserialize(target, data)
       IN  res' = [stage |-> "done", exc |-> r.exc, msg |-> r.msg, self |-> r.self,
                   pre |-> target]
    /\ UNCHANGED <<src, data, edits, bootVars, lifeVars>>

SerNext ==
    \/ Serialize
    \/ \E k \in AllKeys : DelKey(k)
    \/ \E k \in AllKeys : \E v \in EditVals(k) : SetKey(k, v)
    \/ PassNonMapping
    \/ \E t \in Targets : Deserialize(t)

(***************************************************************************)
(* Bootstrap: the module-level code of service/__init__.py                 *)
(***************************************************************************)
\* the failures database initialisation is made to raise (subclasses of
\* Exception)
InitErrors == {"ImportError", "OperationalError", "RuntimeError"}

\* a handler that names one class:  except OperationalError
CaughtNarrow == {"OperationalError"}

\* the exception classes the handler  except Exception  catches
Caught == InitErrors

Info(msg) == [level |-> "INFO", msg |-> msg, cause |-> ""]
Critical(error) == [level |-> "CRITICAL", msg |-> "Cannot continue", cause |-> error]

Banner ==
    << Info("**********"), Info("P E T   S E R V I C E   R U N N I N G"),
       Info("**********") >>

\* the steps of the try block, in order, and the step after each
InitSteps == {"import_models", "init_app", "push_context", "create_all"}
AfterStep(step) ==
    CASE step = "import_models" -> "init_app"
      [] step = "init_app" -> "push_context"
      [] step = "push_context" -> "create_all"
      [] step = "create_all" -> "initialized"

\* app = Flask(...); config; init_logging; the three banner lines
StartApp ==
    /\ pc = "start"
    /\ log' = log \o Banner
    /\ pc' = "import_models"
    /\ UNCHANGED <<exitStatus, registered, lifeVars, serVars>>

\* one step of  from service.models import init_db; init_db(app)  succeeds
InitStepOk(step) ==
    /\ pc = step
    /\ pc' = AfterStep(step)
    /\ log' = IF step = "import_models" THEN log \o <<Info("Initializing database")>>
              ELSE log
    /\ UNCHANGED <<exitStatus, registered, lifeVars, serVars>>

\* one step raises: the handler logs and exits, or the exception escapes and
\* the interpreter ends with status 1
InitStepRaises(step, error) ==
    /\ pc = step
    /\ IF error \in Caught
       THEN /\ log' = log \o <<Critical(error)>>
            /\ pc' = "sys_exit"
            /\ exitStatus' = exitStatus
       ELSE /\ log' = log
            /\ pc' = "exited"
            /\ exitStatus' = 1
    /\ UNCHANGED <<registered, lifeVars, serVars>>

\* sys.exit(4)
SysExit ==
    /\ pc = "sys_exit"
    /\ pc' = "exited"
    /\ exitStatus' = 4
    /\ UNCHANGED <<log, registered, lifeVars, serVars>>

\* app.logger.info("Service initialized!")
LogInitialized ==
    /\ pc = "initialized"
    /\ log' = log \o <<Info("Service initialized!")>>
    /\ pc' = "import_routes"
    /\ UNCHANGED <<exitStatus, registered, lifeVars, serVars>>

\* from service import routes
ImportRoutes ==
    /\ pc = "import_routes"
    /\ registered' = registered \cup {"routes"}
    /\ pc' = "import_common"
    /\ UNCHANGED <<log, exitStatus, lifeVars, serVars>>

\* from service.common import error_handlers, cli_commands
ImportCommon ==
    /\ pc = "import_common"
    /\ registered' = registered \cup {"error_handlers", "cli_commands"}
    /\ pc' = "running"
    /\ UNCHANGED <<log, exitStatus, lifeVars, serVars>>

BootInit ==
    /\ pc = "start"
    /\ log = <<>>
    /\ exitStatus = -1
    /\ registered = {}

BootNext ==
    \/ StartApp
    \/ \E step \in InitSteps : InitStepOk(step)
    \/ \E step \in InitSteps : \E error \in InitErrors : InitStepRaises(step, error)
    \/ SysExit
    \/ LogInitialized
    \/ ImportRoutes
    \/ ImportCommon

(***************************************************************************)
(* Lifecycle: the product table and the SQLAlchemy session.                *)
(*                                                                         *)
(* store is the committed table.  An instance is transient (never added),  *)
(* persistent (the session's instance of the row `key`) or deleted (its    *)
(* row was deleted and committed; the instance is detached).  Attribute    *)
(* assignments to a persistent instance stay in memory until a commit,     *)
(* and db.session.commit() writes the pending changes of every persistent  *)
(* instance of the session, not only those of self.                        *)
(* Values the NOT NULL columns reject (a None name, description or price)  *)
(* and assignments to the id of a persistent instance are not generated.   *)
(***************************************************************************)
NumObjs == 2
MaxId == 2

Objs == 1..NumObjs
Ids == 1..MaxId

NoObj == [st |-> "none", key |-> 0, f |-> NewProduct]
\* last, when the last step was no create(), update() or delete()
NoCall == [op |-> "none", o |-> 0, exc |-> "none", id |-> 0, new |-> 0]

RowIds == {r.id : r \in store}
\* Product.query.get(k) is not None
Resolves(k) == k \in RowIds
RowOf(k) == CHOOSE r \in store : r.id = k

\* Product.find(product_id): the stored record, or NoRow for None
NoRow == [NewProduct EXCEPT !.category = "<no row>"]
find(product_id) == IF Resolves(product_id) THEN RowOf(product_id) ELSE NoRow

\* Column(default=True) and Column(server_default=UNKNOWN), applied by INSERT
ApplyDefaults(f) ==
    [f EXCEPT !.available = IF @ = PyNone THEN PyBool(TRUE) ELSE @,
              !.category = IF @ = NoCategory THEN "UNKNOWN" ELSE @]

Persistent(o) == obj[o].st = "persistent"
Dirty(o) == Persistent(o) /\ obj[o].f # RowOf(obj[o].key)

\* the table after the session's pending UPDATEs
Flushed ==
    {r \in store : ~\E o \in Objs : Persistent(o) /\ obj[o].key = r.id}
        \cup {obj[o].f : o \in {x \in Objs : Persistent(x)}}

\* the instances after a rollback: persistent ones are reloaded
RolledBack ==
    [o \in Objs |-> IF Persistent(o) THEN [obj[o] EXCEPT !.f = RowOf(obj[o].key)]
                    ELSE obj[o]]

\* the ids the table may give to an inserted row whose id is NULL
NewIds == Ids \ RowIds

\* a create without  self.id = None : the INSERT carries the instance's id
createKeepsId(o, nid) ==
    LET self == obj[o].f
        row == [ApplyDefaults(self) EXCEPT !.id = IF self.id = 0 THEN nid ELSE self.id]
    IN  [exc |-> "none", id |-> row.id,
         store |-> Flushed \cup {row},
         obj |-> [obj EXCEPT ![o] = [st |-> "persistent", key |-> row.id, f |-> row]]]

\* Product.create, the table giving the id nid: [exc, store, obj, id]
create(o, nid) ==
    LET self == [obj[o].f EXCEPT !.id = 0]
        row == [ApplyDefaults(self) EXCEPT !.id = nid]
    IN  CASE obj[o].st = "transient" ->
                \* session.add(self) makes it pending; commit() INSERTs it
                [exc |-> "none", id |-> nid,
                 store |-> Flushed \cup {row},
                 obj |-> [obj EXCEPT ![o] = [st |-> "persistent", key |-> nid, f |-> row]]]
          [] obj[o].st = "persistent" ->
                \* add() changes nothing; commit() UPDATEs the row's primary
                \* key to NULL, which the table rejects: no row is inserted
                [exc |-> "IntegrityError", id |-> 0, store |-> store, obj |-> RolledBack]
          [] obj[o].st = "deleted" ->
                \* add() refuses an instance whose row was deleted
                [exc |-> "InvalidRequestError", id |-> 0, store |-> store,
                 obj |-> [obj EXCEPT ![o].f = self]]

\* an update that checks the id but does not look the record up
updateNoLookup(o) ==
    IF obj[o].f.id = 0
    THEN [exc |-> "DataValidationError", store |-> store]
    ELSE [exc |-> "none", store |-> Flushed]

\* Product.update: [exc, store]
update(o) ==
    IF obj[o].f.id = 0 \/ ~Resolves(obj[o].f.id)
    THEN [exc |-> "DataValidationError", store |-> store]
    ELSE [exc |-> "none", store |-> Flushed]

\* a delete that commits without db.session.delete(product)
deleteNothing(o) ==
    IF obj[o].f.id = 0 \/ ~Resolves(obj[o].f.id)
    THEN [exc |-> "DataValidationError", store |-> store, obj |-> obj]
    ELSE [exc |-> "none", store |-> Flushed, obj |-> obj]

\* Product.delete: [exc, store, obj]
delete(o) ==
    LET id == obj[o].f.id
    IN  IF id = 0 \/ ~Resolves(id)
        THEN [exc |-> "DataValidationError", store |-> store, obj |-> obj]
        ELSE [exc |-> "none",
              store |-> {r \in Flushed : r.id # id},
              obj |-> [x \in Objs |->
                         IF Persistent(x) /\ obj[x].key = id
                         THEN [obj[x] EXCEPT !.st = "deleted"]
                         ELSE obj[x]]]

\* ---- the inputs of the lifecycle operations
Price999 == Dec(0, 999, -2)
PriceNeg == Dec(1, 500, -2)

\* the mapping of a request whose description is empty and price negative
BadData ==
    serialize([NewProduct EXCEPT !.name = PyStr(Hat), !.description = PyStr(<<>>),
                                 !.price = PriceNeg, !.available = PyBool(FALSE),
                                 !.category = "TOOLS"])

\* the instances the callers build: Product(name=..., description=...,
\* price=...), and p = Product() followed by p.deserialize(data), which
\* assigns the attributes before it raises
Constructed ==
    { [NewProduct EXCEPT !.name = PyStr(Hat), !.description = PyStr(Wool),
                         !.price = Price999],
      deserialize(NewProduct, BadData).self }

LifeNames == {PyStr(Hat), PyStr(<<>>)}

\* an instance the program may let go of: the session holds on to the
\* persistent instances that have pending changes
Free(o) == ~Dirty(o)

Running == pc = "running"

\* o = Product(...)
New(o, p) ==
    /\ Running /\ Free(o)
    /\ obj' = [obj EXCEPT ![o] = [st |-> "transient", key |-> 0, f |-> p]]
    /\ last' = NoCall
    /\ UNCHANGED <<store, bootVars, serVars>>

\* o = Product.find(k)
Find(o, k) ==
    /\ Running /\ Free(o)
    /\ Resolves(k)
    /\ ~\E x \in Objs : Persistent(x) /\ obj[x].key = k
    /\ obj' = [obj EXCEPT ![o] = [st |-> "persistent", key |-> k, f |-> RowOf(k)]]
    /\ last' = NoCall
    /\ UNCHANGED <<store, bootVars, serVars>>

\* o.name = v
AssignName(o, v) ==
    /\ Running /\ obj[o].st # "none"
    /\ obj[o].f.name # v
    /\ obj' = [obj EXCEPT ![o].f.name = v]
    /\ last' = NoCall
    /\ UNCHANGED <<store, bootVars, serVars>>

\* o.id = k, on an instance that was never added to the session
AssignId(o, k) ==
    /\ Running /\ obj[o].st = "transient"
    /\ obj[o].f.id # k
    /\ obj' = [obj EXCEPT ![o].f.id = k]
    /\ last' = NoCall
    /\ UNCHANGED <<store, bootVars, serVars>>

\* o.create()
Create(o) ==
    /\ Running /\ obj[o].st # "none"
    /\ \E nid \in (IF obj[o].st = "transient" THEN NewIds ELSE {0}) :
        LET r == create(o, nid)
        IN  /\ store' = r.store
            /\ obj' = r.obj
            /\ last' = [op |-> "create", o |-> o, exc |-> r.exc, id |-> obj[o].f.id,
                        new |-> r.id]
    /\ UNCHANGED <<bootVars, serVars>>

\* o.update()
Update(o) ==
    /\ Running /\ obj[o].st # "none"
    /\ LET r == update(o)
       IN  /\ store' = r.store
           /\ last' = [op |-> "update", o |-> o, exc |-> r.exc, id |-> obj[o].f.id,
                       new |-> 0]
    /\ UNCHANGED <<obj, bootVars, serVars>>

\* o.delete()
Delete(o) ==
    /\ Running /\ obj[o].st # "none"
    /\ LET r == delete(o)
       IN  /\ store' = r.store
           /\ obj' = r.obj
           /\ last' = [op |-> "delete", o |-> o, exc |-> r.exc, id |-> obj[o].f.id,
                       new |-> 0]
    /\ UNCHANGED <<bootVars, serVars>>

LifeInit ==
    /\ store = {}
    /\ obj = [o \in Objs |-> NoObj]
    /\ last = NoCall

LifeNext ==
    \/ \E o \in Objs : \E p \in Constructed : New(o, p)
    \/ \E o \in Objs : \E k \in Ids : Find(o, k)
    \/ \E o \in Objs : \E v \in LifeNames : AssignName(o, v)
    \/ \E o \in Objs : \E k \in 0..MaxId : AssignId(o, k)
    \/ \E o \in Objs : Create(o)
    \/ \E o \in Objs : Update(o)
    \/ \E o \in Objs : Delete(o)

(***************************************************************************)
(* Specifications                                                          *)
(***************************************************************************)
\* the service: bootstrap, then lifecycle operations
Init == BootInit /\ LifeInit /\ SerStart({NewProduct})

Next == BootNext \/ LifeNext

Spec == Init /\ [][Next]_vars

\* serialize, edit, deserialize: the inputs are drawn by SerInit
SerInit == BootInit /\ LifeInit /\ SerStart(SerProducts)

SpecSerial == SerInit /\ [][SerNext]_vars

(***************************************************************************)
(* Properties of deserialize and serialize, checked under SpecSerial       *)
(***************************************************************************)
Done == res.stage = "done"
HasAllKeys == data.isdict /\ RequiredKeys \subseteq data.keys
IsMemberName(v) == v.t = "str" /\ \E c \in Category : CategoryName(c) = v.s
NotADecimal == PyStr(<<"n", "o", "t", "-", "a", "-", "d", "e", "c", "i", "m", "a", "l">>)

\* price >= 0
NonNegative(d) == d.kind \in {"F", "Inf"} /\ ~DecimalLtZero(d).lt

\* the fields the spec calls valid
ValidProduct(p) ==
    /\ Truthy(p.name) /\ p.name.t = "str"
    /\ Truthy(p.description) /\ p.description.t = "str"
    /\ NonNegative(p.price)
    /\ p.available.t = "bool"
    /\ p.category \in Category

SameFields(p, q) ==
    /\ p.name = q.name /\ p.description = q.description /\ p.price = q.price
    /\ p.available = q.available /\ p.category = q.category

\* the first required key, in the order deserialize reads them, that the
\* mapping lacks
KeyOrder == <<"name", "description", "price", "available", "category">>
FirstMissing ==
    KeyOrder[CHOOSE i \in 1..5 :
                /\ KeyOrder[i] \notin data.keys
                /\ \A j \in 1..(i - 1) : KeyOrder[j] \in data.keys]

\* C2: deserialize of a mapping that has the five required keys and a
\* category that is not the name of a member of Category ends with
\* DataValidationError: never another exception, never a return.
C2_BadCategoryRejected ==
    (Done /\ HasAllKeys /\ ~IsMemberName(data.val["category"]))
        => res.exc = "DataValidationError"

\* C6 as stated: for a valid Product p, deserialize(serialize(p)) returns, the
\* five fields of the result equal those of p, and the result's id is p's id.
C6_RoundTripKeepsSourceId ==
    (Done /\ edits = 0 /\ ValidProduct(src))
        => /\ res.exc = "none"
           /\ SameFields(res.self, src)
           /\ res.self.id = src.id

\* C6 amended: for a valid Product p, deserialize(serialize(p)) returns and the
\* five fields of the result equal those of p; deserialize does not read the
\* "id" key, so the receiving instance keeps the id it had before the call.
C6_RoundTrip ==
    (Done /\ edits = 0 /\ ValidProduct(src))
        => /\ res.exc = "none"
           /\ SameFields(res.self, src)
           /\ res.self.id = res.pre.id

\* a valid Product with an id and a price printed with an exponent went
\* through serialize and through deserialize on a new instance
C6_Witness ==
    /\ Done /\ edits = 0 /\ ValidProduct(src)
    /\ src.id = 1 /\ res.pre = NewProduct
    /\ src.price = Dec(0, 1234, 2)
    /\ res.exc = "none" /\ res.self.price = src.price

\* C7 as stated: when a required key is absent, deserialize ends with
\* DataValidationError and the message names a key that is absent, whatever
\* the values of the keys that are present.
C7_MissingKeyNamed ==
    (Done /\ data.isdict /\ ~(RequiredKeys \subseteq data.keys))
        => /\ res.exc = "DataValidationError"
           /\ \E k \in RequiredKeys \ data.keys : res.msg = MissingMsg(k)

\* C7 amended: when a required key is absent, deserialize ends with
\* DataValidationError; the message names the first absent key in the order
\* name, description, price, available, category, unless price is present and
\* Decimal() rejects it and the first absent key is available or category:
\* then the message reports the price.
C7_MissingKeyRejected ==
    (Done /\ data.isdict /\ ~(RequiredKeys \subseteq data.keys))
        => /\ res.exc = "DataValidationError"
           /\ IF FirstMissing \in {"name", "description", "price"}
                 \/ DecimalNew(data.val["price"]).exc = "none"
              THEN res.msg = MissingMsg(FirstMissing)
              ELSE res.msg \in {"Invalid price value", "Invalid value for product"}

\* category was deleted, price was replaced by a string that is no decimal,
\* and deserialize reported the price
C7_Witness ==
    /\ Done /\ data.isdict
    /\ "category" \notin data.keys
    /\ data.val["price"] = NotADecimal
    /\ res.exc = "DataValidationError" /\ res.msg = "Invalid price value"

\* C8: with the five required keys and a price Decimal() accepts, deserialize
\* ends with DataValidationError whenever the name is empty, the description
\* is empty or the price is negative, and it returns the populated instance
\* only when name and description are non-empty and price >= 0.
C8_Validation ==
    (Done /\ HasAllKeys /\ DecimalNew(data.val["price"]).exc = "none")
        => LET name == data.val["name"]
               description == data.val["description"]
               price == DecimalNew(data.val["price"]).d
           IN  /\ (~Truthy(name) \/ ~Truthy(description) \/ DecimalLtZero(price).lt)
                     => res.exc = "DataValidationError"
               /\ res.exc = "none"
                     => /\ Truthy(res.self.name) /\ Truthy(res.self.description)
                        /\ NonNegative(res.self.price)
                        /\ res.self.name = name /\ res.self.description = description
                        /\ res.self.price = price

\* C9: when the price of the mapping is a value Decimal() rejects (a string
\* that is no decimal, None, a list), deserialize ends with
\* DataValidationError, whatever the other keys hold.
C9_BadPriceRejected ==
    (Done /\ data.isdict /\ "price" \in data.keys
          /\ DecimalNew(data.val["price"]).exc # "none")
        => res.exc = "DataValidationError"

\* price was "not-a-decimal", the category was no member name either, and
\* deserialize ended with DataValidationError
C9_Witness ==
    /\ Done /\ HasAllKeys
    /\ data.val["price"] = NotADecimal
    /\ ~IsMemberName(data.val["category"])
    /\ res.exc = "DataValidationError"

(***************************************************************************)
(* Properties of the lifecycle operations and the bootstrap, under Spec    *)
(***************************************************************************)
\* C1: every stored record has a non-empty name, a non-empty description and
\* a price >= 0, whatever create(), update() and delete() calls were made.
C1_StoredRecordsValid ==
    \A r \in store :
        Truthy(r.name) /\ Truthy(r.description) /\ NonNegative(r.price)

UniqueIds(rows) == \A r1, r2 \in rows : r1.id = r2.id => r1 = r2

\* what a create() that inserts does: one more record, under an id that no
\* record had and that the instance now carries
InsertsNewRow(o) ==
    /\ last'.exc = "none"
    /\ Cardinality(store') = Cardinality(store) + 1
    /\ last'.new \notin RowIds
    /\ \E r \in store' : r.id = last'.new
    /\ obj'[o].f.id = last'.new
    /\ UniqueIds(store')

BadId(o) == obj[o].f.id = 0 \/ ~Resolves(obj[o].f.id)

OnlyCreateAddsIds ==
    \A k \in Ids :
        (~Resolves(k) /\ \E r \in store' : r.id = k)
            => last'.op = "create" /\ last'.new = k

HasLog(level, msg) == \E i \in 1..Len(log) : log[i].level = level /\ log[i].msg = msg
InitFailed == pc \in {"sys_exit", "exited"}
InitCompleted == pc \in {"initialized", "import_routes", "import_common", "running"}

BootstrapInv ==
    /\ InitFailed =>
         /\ log # <<>>
         /\ log[Len(log)].level = "CRITICAL" /\ log[Len(log)].msg = "Cannot continue"
         /\ ~HasLog("INFO", "Service initialized!")
         /\ registered = {}
    /\ pc = "exited" => exitStatus = 4
    /\ exitStatus # -1 => pc = "exited"
    /\ HasLog("INFO", "Service initialized!") => InitCompleted
    /\ registered # {} => InitCompleted /\ HasLog("INFO", "Service initialized!")

BootstrapStep ==
    /\ \A step \in InitSteps : \A error \in InitErrors :
          InitStepRaises(step, error)
             => log' = log \o <<Critical(error)>> /\ pc' = "sys_exit"
    /\ pc = "sys_exit" => pc' = "exited" /\ exitStatus' = 4
    /\ registered' # registered => InitCompleted

\* C10: when a step of database initialisation raises, a critical record
\* "Cannot continue" is logged and the next step is the exit with status 4;
\* in that run "Service initialized!" is never logged and nothing is
\* registered.  Otherwise the confirmation is logged, and modules are
\* registered, only after database initialisation has completed.
C10_Bootstrap == []BootstrapInv /\ [][BootstrapStep]_vars

\* db.create_all() raised: the critical record follows "Initializing
\* database" and the process has ended with status 4
C10_Witness ==
    /\ pc = "exited" /\ exitStatus = 4
    /\ Len(log) = 5
    /\ log[4] = Info("Initializing database")
    /\ log[5] = Critical("OperationalError")
    /\ registered = {}

====
